---- MODULE Spec2Model ----
\* MultiDialer (package dialer): alias lookup and expansion, address
\* picker, parallel connect racer, Dial / DialTLS and ClearCache; and the
\* relay codec of package gae (encodeRequest, decodeResponse), modelled
\* from the Go source.
EXTENDS Integers, Sequences, FiniteSets, TLC

\* ------------------------------------------------------------------ bounds
MaxLevel == 2      \* Level ranges over 0..MaxLevel
MaxDur == 2        \* measured durations range over 1..MaxDur
MaxCalls == 3      \* dial / dialTLS calls per behaviour
MaxPick == 4       \* the picker's n ranges over 0..MaxPick (SpecPick)
MaxMembers == 2    \* members per alias in HostMap
MaxDials == 2      \* Dial / DialTLS calls per behaviour (SpecDial)
MaxBody == 6       \* bytes in an outer response body (SpecDecode)
MaxCookieLen == 7  \* characters in a Set-Cookie value (SpecCookie)

Addrs == {"a1", "a2", "a3"}
Durations == 1..MaxDur
NoErr == "nil"
Errs == {"ConnectError", "HandshakeError"}
NoConn == 0

\* The candidate pools handed to dialMulti / dialMultiTLS.
PoolSet == {<<>>, <<"a1">>, <<"a2", "a1">>, <<"a1", "a2", "a3">>}

VARIABLES
  Level,        \* d.Level
  TCPConnDuration, TCPConnError, TLSConnDuration, TLSConnError,
                \* health caches: functions from the keys present to values
  mode,         \* "none", "tcp" (dialMulti) or "tls" (dialMultiTLS)
  pool,         \* the addrs argument of the running race
  length,       \* min(len(addrs), Level): channel capacity and loop bound
  picked,       \* addrs after pickupAddrs: one task per element
  task,         \* task[i]: [pc, c, e] of the goroutine for picked[i]
  lane,         \* the channel's buffer
  sent,         \* every outcome in the order it was put on lane
  coPc, coI, coR,   \* the coordinator's loop: position, i, r
  ret,          \* what the call returned: <<>> or <<[c, e]>>
  drPc, drCount,    \* the drainer goroutine
  drGot,        \* how many outcomes the drainer received
  sock,         \* sock[i]: "none", "open" or "closed"
  closes,       \* closes[i]: number of Close() calls on socket i
  recvBy,       \* recvBy[i]: who received outcome i, in order
  calls,        \* number of calls started
  callLimit,    \* number of calls a behaviour may start
  pk,           \* a call of pickupAddrs: arguments, result and position
  HostMap,      \* d.HostMap: alias -> list of members
  IPv6Only,     \* d.IPv6Only
  IPBlackList,  \* d.IPBlackList: the set of banned IPs
  DNSCache,     \* d.DNSCache: name -> [addrs, expiry]
  la,           \* the last LookupAlias call: argument and results
  ea,           \* the last ExpandAlias call: argument and resolver answers
  cc,           \* the last ClearCache call: what it found in the caches
  enc,          \* a call of encodeRequest: request and envelope
  dec,          \* a call of decodeResponse: response and result
  ck            \* the Set-Cookie step of decodeResponse on its own

caches == <<TCPConnDuration, TCPConnError, TLSConnDuration, TLSConnError>>
raceVars == <<mode, pool, length, picked, task, lane, sent, coPc, coI, coR,
              ret, drPc, drCount, drGot, sock, closes, recvBy, calls>>
aliasVars == <<HostMap, IPv6Only, IPBlackList, DNSCache, la>>
extraVars == <<ea, cc, enc, dec, ck>>
otherVars == <<pk, aliasVars, extraVars>>
vars == <<Level, caches, raceVars, callLimit, otherVars>>

\* ------------------------------------------------------- lrucache.Cache
CacheSet(c, k, v) == [x \in DOMAIN c \cup {k} |-> IF x = k THEN v ELSE c[x]]
CacheDel(c, k) == [x \in DOMAIN c \ {k} |-> c[x]]
CacheHas(c, k) == k \in DOMAIN c
EmptyCache == [x \in {} |-> 0]

\* --------------------------------------------------------- pickupAddrs
Min(a, b) == IF a < b THEN a ELSE b

\* every reordering of a sequence
PermsOf(s) ==
  { [i \in 1..Len(s) |-> s[f[i]]] : f \in Permutations(1..Len(s)) }

\* shuffle(addrs): any permutation may result
shuffle(addrs) == PermsOf(addrs)

\* racers.Less with the comparison reversed
LessReversed(connDuration, x, y) == connDuration[x] > connDuration[y]

\* racers.Less
Less(connDuration, x, y) == connDuration[x] < connDuration[y]

\* sort.Sort(racers(goodAddrs)): not stable, so any ordering in which no
\* element is followed by a smaller one
SortRacers(goodAddrs, connDuration) ==
  { p \in PermsOf(goodAddrs) :
      \A i, j \in 1..Len(p) : i < j => ~Less(connDuration, p[j], p[i]) }

\* the cap on goodAddrs without the halving
GoodCapWhole(n) == n

\* goodAddrs[:n/2] when len(goodAddrs) > n/2
GoodCap(n) == n \div 2

Truncate(s, k) == IF Len(s) > k THEN SubSeq(s, 1, k) ELSE s

\* the partition of addrs by the two caches (duration cache looked up first)
GoodOf(addrs, connDuration) ==
  LET T(a) == CacheHas(connDuration, a) IN SelectSeq(addrs, T)
BadOf(addrs, connDuration, connError) ==
  LET T(a) == ~CacheHas(connDuration, a) /\ CacheHas(connError, a)
  IN SelectSeq(addrs, T)
UnknownOf(addrs, connDuration, connError) ==
  LET T(a) == ~CacheHas(connDuration, a) /\ ~CacheHas(connError, a)
  IN SelectSeq(addrs, T)

\* pickupAddrs: the set of lists it may return
pickupAddrs(addrs, n, connDuration, connError) ==
  IF Len(addrs) <= n THEN {addrs}
  ELSE
    { LET goodAddrs1 == Truncate(g, GoodCap(n))
          unknownAddrs ==
            IF Len(goodAddrs1) + Len(u) > n
              THEN SubSeq(u, 1, n - Len(goodAddrs1)) ELSE u
      IN goodAddrs1 \o unknownAddrs :
        g \in SortRacers(GoodOf(addrs, connDuration), connDuration),
        u \in shuffle(UnknownOf(addrs, connDuration, connError)) }

\* ------------------------------------------------- health-cache updates
\* dialMulti, err == nil
TCPOnSuccess(addr, dur) ==
  <<CacheSet(TCPConnDuration, addr, dur), TCPConnError,
    TLSConnDuration, TLSConnError>>
\* dialMulti, err != nil
TCPOnFailure(addr, err) ==
  <<CacheDel(TCPConnDuration, addr), TCPConnError,
    TLSConnDuration, CacheSet(TLSConnError, addr, err)>>
\* dialMultiTLS, handshake err == nil
TLSOnSuccess(addr, dur) ==
  <<TCPConnDuration, TCPConnError,
    CacheSet(TLSConnDuration, addr, dur), TLSConnError>>
\* dialMultiTLS, connect or handshake err != nil
TLSOnFailure(addr, err) ==
  <<TCPConnDuration, TCPConnError,
    CacheDel(TLSConnDuration, addr), CacheSet(TLSConnError, addr, err)>>

\* a call of pickupAddrs with no result yet
PickCall(addrs, n, connDuration, connError) ==
  [addrs |-> addrs, n |-> n, connDuration |-> connDuration,
   connError |-> connError, result |-> <<>>, pc |-> "call"]
NoPick == PickCall(<<>>, 0, EmptyCache, EmptyCache)

\* ------------------------------------------------------------- resolver
V4 == {"1.2.3.4", "5.6.7.8"}
V6 == {"2001:db8::1"}
IPs == V4 \cup V6
Hosts == {"h1.example", "h2.example"}
Members == IPs \cup Hosts
AliasNames == {"google_hk"}

\* strings.Contains(h, ":")
HasColon(h) == h \in V6
\* net.ParseIP(name) != nil
ParseIP(name) == name \in IPs

\* what net.LookupHost may return: an error, or a list of addresses
SysAnswers ==
  {[err |-> "ResolverError", hs |-> {}]}
    \cup { [err |-> NoErr, hs |-> S] : S \in SUBSET IPs \ {{}} }

\* what dns.Exchange may return: an error, or an answer section of records
RRs == { [type |-> "A", ip |-> h] : h \in V4 }
         \cup { [type |-> "AAAA", ip |-> h] : h \in V6 }
         \cup { [type |-> "CNAME", ip |-> ""] }
UDPAnswers ==
  {[err |-> "ResolverError", answer |-> {}]}
    \cup { [err |-> NoErr, answer |-> S] : S \in SUBSET RRs }

\* LookupHost on the answer of net.LookupHost
LookupHost(ans) ==
  IF ans.err # NoErr
    THEN [addrs |-> ans.hs, err |-> ans.err]
    ELSE [addrs |-> { h \in ans.hs :
                        /\ h \notin IPBlackList
                        /\ HasColon(h) => IPv6Only },
          err |-> NoErr]

\* LookupHost2 on the answer of dns.Exchange
LookupHost2(ans) ==
  IF ans.err # NoErr THEN [addrs |-> {}, err |-> ans.err]
  ELSE IF Cardinality(ans.answer) < 1 THEN [addrs |-> {}, err |-> "NoAnswer"]
  ELSE [addrs |-> { rr.ip : rr \in
                      { x \in ans.answer :
                          /\ x.type = (IF IPv6Only THEN "AAAA" ELSE "A")
                          /\ x.ip \notin IPBlackList } },
        err |-> NoErr]

\* --------------------------------------------------------- LookupAlias
\* the loop's variables: DNS cache, seen, err and expiry; failed records
\* the members whose resolver call returned an error (history only)
LoopState(cache, seen, err, expiry) ==
  [cache |-> cache, seen |-> seen, err |-> err, expiry |-> expiry,
   failed |-> {}]

\* one iteration of `for _, name := range names`: the states it may end in
LookupMember(name, st) ==
  IF ParseIP(name)
    THEN {[st EXCEPT !.seen = @ \cup {name}, !.expiry = "zero"]}
  ELSE IF CacheHas(st.cache, name)
    THEN {[st EXCEPT !.seen = @ \cup st.cache[name].addrs]}
  ELSE
    { LET r == IF IPv6Only THEN LookupHost2(ans) ELSE LookupHost(ans)
          addrs0 == IF r.err # NoErr THEN {} ELSE r.addrs
      IN [LoopState(CacheSet(st.cache, name,
                             [addrs |-> addrs0, expiry |-> st.expiry]),
                    st.seen \cup addrs0, r.err, st.expiry)
            EXCEPT !.failed = IF r.err # NoErr THEN st.failed \cup {name}
                                               ELSE st.failed] :
        ans \in IF IPv6Only THEN UDPAnswers ELSE SysAnswers }

RECURSIVE LookupLoop(_, _)
LookupLoop(names, st) ==
  IF names = <<>> THEN {st}
  ELSE UNION { LookupLoop(Tail(names), st2) :
                 st2 \in LookupMember(Head(names), st) }

\* the lookup given up as soon as one member's resolver call has failed
LookupResultAborting(st) ==
  IF st.seen = {} \/ st.err # NoErr THEN [addrs |-> {}, err |-> st.err]
  ELSE LET addrs == { addr \in st.seen : addr \notin IPBlackList } IN
       IF addrs = {} THEN [addrs |-> {}, err |-> "NoGoodAddrs"]
       ELSE [addrs |-> addrs, err |-> NoErr]

\* what LookupAlias returns after the loop
LookupResult(st) ==
  IF st.seen = {} THEN [addrs |-> {}, err |-> st.err]
  ELSE LET addrs == { addr \in st.seen : addr \notin IPBlackList } IN
       IF addrs = {} THEN [addrs |-> {}, err |-> "NoGoodAddrs"]
       ELSE [addrs |-> addrs, err |-> NoErr]

Lookup(alias, addrs, err) ==
  [alias |-> alias, addrs |-> addrs, err |-> err, blackList |-> IPBlackList,
   failed |-> {}]
NoLookup ==
  [alias |-> "", addrs |-> {}, err |-> NoErr, blackList |-> {}, failed |-> {}]

\* no alias is configured or used (the racer and picker on their own)
NoAliasUse ==
  /\ HostMap = [a \in {} |-> <<>>]
  /\ IPv6Only = FALSE
  /\ IPBlackList = {}
  /\ DNSCache = EmptyCache
  /\ la = NoLookup

\* the body of LookupAlias: the DNS cache and the results after it
LookupAliasCall(alias) ==
  IF alias \notin DOMAIN HostMap
    THEN /\ la' = Lookup(alias, {}, "NotExists")
         /\ DNSCache' = DNSCache
    ELSE \E st \in LookupLoop(HostMap[alias],
                     LoopState(DNSCache, {}, NoErr, "DNSCacheExpiry")) :
           /\ DNSCache' = st.cache
           /\ la' = [Lookup(alias, LookupResult(st).addrs,
                             LookupResult(st).err)
                        EXCEPT !.failed = st.failed]

LookupAlias(alias) ==
  /\ LookupAliasCall(alias)
  /\ UNCHANGED <<Level, caches, raceVars, callLimit, pk, extraVars, HostMap,
                 IPv6Only,
                 IPBlackList>>

\* an IP is banned (blacklist entries are created externally)
BlackListAdd(ip) ==
  /\ ip \notin IPBlackList
  /\ IPBlackList' = IPBlackList \cup {ip}
  /\ UNCHANGED <<Level, caches, raceVars, callLimit, pk, extraVars, HostMap,
                 IPv6Only,
                 DNSCache, la>>

\* a blacklist entry reaches its TTL
BlackListExpire(ip) ==
  /\ ip \in IPBlackList
  /\ IPBlackList' = IPBlackList \ {ip}
  /\ UNCHANGED <<Level, caches, raceVars, callLimit, pk, extraVars, HostMap,
                 IPv6Only,
                 DNSCache, la>>

\* a DNS-cache entry stored with an expiry time reaches it
DNSExpire(name) ==
  /\ CacheHas(DNSCache, name)
  /\ DNSCache[name].expiry # "zero"
  /\ DNSCache' = CacheDel(DNSCache, name)
  /\ UNCHANGED <<Level, caches, raceVars, callLimit, pk, extraVars, HostMap,
                 IPv6Only,
                 IPBlackList, la>>

\* --------------------------------------------------------- ExpandAlias
\* d.DNSServers
DNSServers == <<"8.8.8.8", "8.8.4.4">>

\* what LookupHost2 may return for one server
ServerResults == { LookupHost2(ans) : ans \in UDPAnswers }

\* `for _, dnsserver := range d.DNSServers` for a hostname: seen after the
\* loop; answered records that some server returned without error
RECURSIVE ServerLoop(_, _)
ServerLoop(servers, acc) ==
  IF servers = <<>> THEN {acc}
  ELSE UNION { ServerLoop(Tail(servers),
                          IF r.err # NoErr THEN acc
                          ELSE [seen |-> acc.seen \cup r.addrs,
                                answered |-> TRUE]) :
                 r \in ServerResults }

\* the outer loop's variables: DNS cache and expire; trace records, per
\* member, whether a server answered and the union of the answers
ExpandState(cache, expire, trace) ==
  [cache |-> cache, expire |-> expire, trace |-> trace]

\* a member's entry after `d.DNSCache.Set(name, addrs, expire)`, the
\* cached addresses merged in
Merged(cache, name, seen, expire) ==
  CacheSet(cache, name,
           [addrs |-> seen \cup (IF CacheHas(cache, name)
                                  THEN cache[name].addrs ELSE {}),
            expiry |-> expire])

\* one iteration of `for _, name := range names`
ExpandMember(name, st) ==
  IF ParseIP(name)
    THEN IF DNSServers = <<>> THEN {st}
         ELSE {ExpandState(Merged(st.cache, name, {name}, "zero"), "zero",
                           st.trace)}
  ELSE { ExpandState(IF acc.seen = {} THEN st.cache
                     ELSE Merged(st.cache, name, acc.seen, st.expire),
                     st.expire,
                     Append(st.trace, [name |-> name,
                                       answered |-> acc.answered,
                                       seen |-> acc.seen])) :
           acc \in ServerLoop(DNSServers, [seen |-> {}, answered |-> FALSE]) }

RECURSIVE ExpandLoop(_, _)
ExpandLoop(names, st) ==
  IF names = <<>> THEN {st}
  ELSE UNION { ExpandLoop(Tail(names), st2) :
                 st2 \in ExpandMember(Head(names), st) }

Expand(alias, err, before, after, trace) ==
  [alias |-> alias, err |-> err, before |-> before, after |-> after,
   trace |-> trace]
NoExpand == Expand("", NoErr, EmptyCache, EmptyCache, <<>>)

ExpandAlias(alias) ==
  /\ IF alias \notin DOMAIN HostMap
       THEN /\ ea' = Expand(alias, "NotExists", DNSCache, DNSCache, <<>>)
            /\ DNSCache' = DNSCache
       ELSE \E st \in ExpandLoop(HostMap[alias],
                                 ExpandState(DNSCache, "24h", <<>>)) :
              /\ DNSCache' = st.cache
              /\ ea' = Expand(alias, NoErr, DNSCache, st.cache, st.trace)
  /\ UNCHANGED <<Level, caches, raceVars, callLimit, pk, HostMap, IPv6Only,
                 IPBlackList, la, cc, enc, dec, ck>>

\* the four caches after an update
CachesBecome(t) ==
  /\ TCPConnDuration' = t[1]
  /\ TCPConnError' = t[2]
  /\ TLSConnDuration' = t[3]
  /\ TLSConnError' = t[4]

\* --------------------------------------------------------------- racer
Tasks == 1..Len(picked)
Racer(c, e, i) == [c |-> c, e |-> e, from |-> i]
ZeroRacer == Racer(NoConn, NoErr, 0)

\* the winner test on the connection instead of the error
IsSuccessByConn(r) == r.c # NoConn

\* `if r.e == nil` in the coordinator's loop
IsSuccess(r) == r.e = NoErr
\* `if r1.c != nil` in the drainer
DrainerCloses(r1) == r1.c # NoConn
\* the drainer's count argument: length - 1 - i
DrainCount(len, i) == len - 1 - i

AllSent == \A i \in Tasks : task[i].pc = "done"
\* nothing can move any more: every task has sent and the lane is empty
Quiescent == mode # "none" /\ AllSent /\ lane = <<>>
Idle == mode = "none" \/ Quiescent

\* dialMulti / dialMultiTLS up to the end of the launch loop: the race's
\* variables
Launch(m, addrs, connDuration, connError) ==
  /\ Idle
  /\ calls < callLimit
  /\ LET len == Min(Len(addrs), Level) IN
     \E p \in pickupAddrs(addrs, len, connDuration, connError) :
       /\ mode' = m
       /\ pool' = addrs
       /\ length' = len
       /\ picked' = p
       /\ task' = [i \in 1..Len(p) |-> [pc |-> "run", c |-> NoConn, e |-> NoErr]]
       /\ lane' = <<>>
       /\ sent' = <<>>
       /\ coI' = 0
       /\ coR' = ZeroRacer
       /\ IF len = 0
            THEN coPc' = "returned" /\ ret' = <<[c |-> NoConn, e |-> NoErr]>>
            ELSE coPc' = "loop" /\ ret' = <<>>
       /\ drPc' = "none"
       /\ drCount' = 0
       /\ drGot' = 0
       /\ sock' = [i \in 1..Len(p) |-> "none"]
       /\ closes' = [i \in 1..Len(p) |-> 0]
       /\ recvBy' = [i \in 1..Len(p) |-> <<>>]
       /\ calls' = calls + 1

StartRace(m, addrs, connDuration, connError) ==
  /\ Launch(m, addrs, connDuration, connError)
  /\ UNCHANGED <<Level, caches, callLimit, otherVars>>

dialMulti(addrs) == StartRace("tcp", addrs, TCPConnDuration, TCPConnError)
dialMultiTLS(addrs) == StartRace("tls", addrs, TLSConnDuration, TLSConnError)

Finish(i, c, e) == task' = [task EXCEPT ![i] = [pc |-> "send", c |-> c, e |-> e]]

\* goroutine of dialMulti: d.Dialer.Dial and the cache update
TCPAttempt(i) ==
  /\ mode = "tcp"
  /\ task[i].pc = "run"
  /\ \/ \E dur \in Durations :
          /\ CachesBecome(TCPOnSuccess(picked[i], dur))
          /\ sock' = [sock EXCEPT ![i] = "open"]
          /\ Finish(i, i, NoErr)
     \/ /\ CachesBecome(TCPOnFailure(picked[i], "ConnectError"))
        /\ sock' = sock
        /\ Finish(i, NoConn, "ConnectError")
  /\ UNCHANGED <<Level, mode, pool, length, picked, lane, sent, coPc, coI, coR,
                 ret, drPc, drCount, drGot, closes, recvBy, calls, callLimit, otherVars>>

\* goroutine of dialMultiTLS: d.Dialer.Dial
TLSConnect(i) ==
  /\ mode = "tls"
  /\ task[i].pc = "run"
  /\ \/ /\ sock' = [sock EXCEPT ![i] = "open"]
        /\ task' = [task EXCEPT ![i].pc = "handshake"]
        /\ UNCHANGED caches
     \/ /\ CachesBecome(TLSOnFailure(picked[i], "ConnectError"))
        /\ sock' = sock
        /\ Finish(i, NoConn, "ConnectError")
  /\ UNCHANGED <<Level, mode, pool, length, picked, lane, sent, coPc, coI, coR,
                 ret, drPc, drCount, drGot, closes, recvBy, calls, callLimit, otherVars>>

\* goroutine of dialMultiTLS: tlsConn.Handshake and the cache update
TLSHandshake(i) ==
  /\ mode = "tls"
  /\ task[i].pc = "handshake"
  /\ \/ \E dur \in Durations :
          /\ CachesBecome(TLSOnSuccess(picked[i], dur))
          /\ Finish(i, i, NoErr)
     \/ /\ CachesBecome(TLSOnFailure(picked[i], "HandshakeError"))
        /\ Finish(i, i, "HandshakeError")
  /\ UNCHANGED <<Level, mode, pool, length, picked, lane, sent, coPc, coI, coR,
                 ret, drPc, drCount, drGot, sock, closes, recvBy, calls, callLimit, otherVars>>

\* lane <- racer{conn, err}
TaskSend(i) ==
  /\ task[i].pc = "send"
  /\ Len(lane) < length
  /\ lane' = Append(lane, Racer(task[i].c, task[i].e, i))
  /\ sent' = Append(sent, Racer(task[i].c, task[i].e, i))
  /\ task' = [task EXCEPT ![i].pc = "done"]
  /\ UNCHANGED <<Level, caches, mode, pool, length, picked, coPc, coI, coR,
                 ret, drPc, drCount, drGot, sock, closes, recvBy, calls, callLimit, otherVars>>

\* one iteration of the coordinator's loop: r = <-lane
CoordinatorRecv ==
  /\ coPc = "loop"
  /\ coI < length
  /\ lane # <<>>
  /\ LET r == Head(lane) IN
     /\ lane' = Tail(lane)
     /\ coR' = r
     /\ recvBy' = [recvBy EXCEPT ![r.from] = Append(@, "coordinator")]
     /\ IF IsSuccess(r)
          THEN /\ drCount' = DrainCount(length, coI)
               /\ drPc' = IF DrainCount(length, coI) > 0 THEN "run" ELSE "done"
               /\ ret' = <<[c |-> r.c, e |-> NoErr]>>
               /\ coPc' = "returned"
               /\ coI' = coI
          ELSE /\ coI' = coI + 1
               /\ IF coI + 1 < length
                    THEN coPc' = "loop" /\ ret' = ret
                    ELSE coPc' = "returned" /\ ret' = <<[c |-> NoConn, e |-> r.e]>>
               /\ UNCHANGED <<drPc, drCount>>
  /\ UNCHANGED <<Level, caches, mode, pool, length, picked, task, sent, drGot,
                 sock, closes, calls, callLimit, otherVars>>

\* one iteration of the drainer's loop: r1 = <-lane
DrainerRecv ==
  /\ drPc = "run"
  /\ drCount > 0
  /\ lane # <<>>
  /\ LET r1 == Head(lane) IN
     /\ lane' = Tail(lane)
     /\ recvBy' = [recvBy EXCEPT ![r1.from] = Append(@, "drainer")]
     /\ IF DrainerCloses(r1)
          THEN /\ sock' = [sock EXCEPT ![r1.c] = "closed"]
               /\ closes' = [closes EXCEPT ![r1.c] = @ + 1]
          ELSE UNCHANGED <<sock, closes>>
  /\ drCount' = drCount - 1
  /\ drGot' = drGot + 1
  /\ drPc' = IF drCount - 1 > 0 THEN "run" ELSE "done"
  /\ UNCHANGED <<Level, caches, mode, pool, length, picked, task, sent, coPc,
                 coI, coR, ret, calls, callLimit, otherVars>>

\* ---------------------------------------------------- Dial and DialTLS
\* d.Site2Alias: the hosts that are dialled through an alias
Site2Alias == [h \in {"www.google.com"} |-> "google_hk"]

\* the address argument, as net.SplitHostPort takes it apart
DialAddresses ==
  { [host |-> "www.google.com", port |-> "443", err |-> NoErr],
    [host |-> "other.example", port |-> "443", err |-> NoErr],
    [host |-> "", port |-> "", err |-> "MissingPort"] }
DialNetworks == {"tcp", "udp"}

\* net.JoinHostPort(host, port): an IPv6 host is put in brackets
JoinHostPort(host, port) ==
  CASE host = "1.2.3.4" /\ port = "443" -> "1.2.3.4:443"
    [] host = "5.6.7.8" /\ port = "443" -> "5.6.7.8:443"
    [] host = "2001:db8::1" /\ port = "443" -> "[2001:db8::1]:443"

\* the orders in which `for i, host := range hosts` may find the hosts
Orders(S) ==
  { s \in [1..Cardinality(S) -> S] : \A x \in S : \E i \in DOMAIN s : s[i] = x }

\* the connection d.Dialer.Dial / tls.DialWithDialer returns
DirectConn == 1

\* `return d.Dialer.Dial(network, address)`: one connection or one error
DirectDial(m) ==
  /\ Idle
  /\ calls < callLimit
  /\ mode' = IF m = "tls" THEN "directTLS" ELSE "direct"
  /\ pool' = <<>>
  /\ length' = 0
  /\ picked' = <<>>
  /\ task' = <<>>
  /\ lane' = <<>>
  /\ sent' = <<>>
  /\ coPc' = "returned"
  /\ coI' = 0
  /\ coR' = ZeroRacer
  /\ \/ ret' = <<[c |-> DirectConn, e |-> NoErr]>>
     \/ \E e \in (IF m = "tls" THEN Errs ELSE {"ConnectError"}) :
          ret' = <<[c |-> NoConn, e |-> e]>>
  /\ drPc' = "none"
  /\ drCount' = 0
  /\ drGot' = 0
  /\ sock' = <<>>
  /\ closes' = <<>>
  /\ recvBy' = <<>>
  /\ calls' = calls + 1

\* Dial (m = "tcp") and DialTLS (m = "tls")
DialVia(m, network, address) ==
  /\ IF /\ network \in {"tcp", "tcp4", "tcp6"}
        /\ address.err = NoErr
        /\ address.host \in DOMAIN Site2Alias
       THEN /\ LookupAliasCall(Site2Alias[address.host])
            /\ IF la'.err = NoErr
                 THEN \E hosts \in Orders(la'.addrs) :
                        LET addrs == [i \in DOMAIN hosts |->
                                       JoinHostPort(hosts[i], address.port)]
                        IN IF m = "tcp"
                             THEN Launch("tcp", addrs, TCPConnDuration,
                                         TCPConnError)
                             ELSE Launch("tls", addrs, TLSConnDuration,
                                         TLSConnError)
                 ELSE DirectDial(m)
       ELSE /\ DirectDial(m)
            /\ UNCHANGED <<DNSCache, la>>
  /\ UNCHANGED <<Level, caches, callLimit, pk, extraVars, HostMap, IPv6Only,
                 IPBlackList>>

Dial(network, address) == DialVia("tcp", network, address)
DialTLS(network, address) == DialVia("tls", network, address)

\* --------------------------------------------------------- ClearCache
\* the number of records in each of the four health caches
HealthRecords ==
  <<Cardinality(DOMAIN TCPConnDuration), Cardinality(DOMAIN TCPConnError),
    Cardinality(DOMAIN TLSConnDuration), Cardinality(DOMAIN TLSConnError)>>

\* ClearCache with `d.DNSCache.Clear()` not commented out
ClearCacheAndDNS ==
  /\ cc' = [called |-> TRUE, found |-> HealthRecords]
  /\ CachesBecome(<<EmptyCache, EmptyCache, EmptyCache, EmptyCache>>)
  /\ DNSCache' = EmptyCache
  /\ UNCHANGED <<Level, raceVars, callLimit, pk, HostMap, IPv6Only,
                 IPBlackList, la, ea, enc, dec, ck>>

ClearCache ==
  /\ cc' = [called |-> TRUE, found |-> HealthRecords]
  /\ CachesBecome(<<EmptyCache, EmptyCache, EmptyCache, EmptyCache>>)
  /\ UNCHANGED <<Level, raceVars, callLimit, pk, HostMap, IPv6Only,
                 IPBlackList, DNSCache, la, ea, enc, dec, ck>>

NoClear == [called |-> FALSE, found |-> <<0, 0, 0, 0>>]

\* lrucache: a record leaves its cache when it expires or is evicted
Expire ==
  /\ Idle
  /\ \E a \in Addrs :
       \/ CacheHas(TCPConnDuration, a)
            /\ CachesBecome(<<CacheDel(TCPConnDuration, a), TCPConnError,
                           TLSConnDuration, TLSConnError>>)
       \/ CacheHas(TCPConnError, a)
            /\ CachesBecome(<<TCPConnDuration, CacheDel(TCPConnError, a),
                           TLSConnDuration, TLSConnError>>)
       \/ CacheHas(TLSConnDuration, a)
            /\ CachesBecome(<<TCPConnDuration, TCPConnError,
                           CacheDel(TLSConnDuration, a), TLSConnError>>)
       \/ CacheHas(TLSConnError, a)
            /\ CachesBecome(<<TCPConnDuration, TCPConnError,
                           TLSConnDuration, CacheDel(TLSConnError, a)>>)
  /\ UNCHANGED <<Level, raceVars, callLimit, otherVars>>

\* ================================================ relay codec (package gae)
\* the number of values of a uint16 and of a byte
U16 == 65536
Byte == 256

\* binary.BigEndian.PutUint16(b0, v)
PutUint16(v) == <<v \div Byte, v % Byte>>
\* binary.Read(r, binary.BigEndian, &hdrLen) on two bytes
ReadUint16(b0) == b0[1] * Byte + b0[2]
\* the conversion uint16(n) of an int
ToUint16(n) == n % U16

\* --------------------------------------------------------- encodeRequest
\* b.Len() after w.Close(): the size the request head deflates to is not
\* computed; it ranges over sizes on both sides of the uint16 limit
HeadSizes == {1, 2, 300, U16 - 1, U16, U16 + 1, U16 + 300, 2 * U16 + 5}
\* req.ContentLength: unknown (-1), no body, or the body's size
ContentLengths == {-1, 0, 1, 700}
Schemes == {"http", "https"}

Request(headSize, contentLength, scheme) ==
  [headSize |-> headSize, ContentLength |-> contentLength, scheme |-> scheme]

\* the outer POST request: b0, the size of the block b, Content-Length,
\* User-Agent and whether req.Body follows the block
encodeRequest(req) ==
  LET b0 == PutUint16(ToUint16(req.headSize)) IN
  [err |-> NoErr,
   b0 |-> b0,
   block |-> req.headSize,
   Method |-> "POST",
   UserAgent |-> IF req.scheme = "https" THEN "a" ELSE "",
   ContentLength |-> IF req.ContentLength > 0
                       THEN Len(b0) + req.headSize + req.ContentLength
                       ELSE Len(b0) + req.headSize,
   withBody |-> req.ContentLength > 0]

NoEnvelope ==
  [err |-> NoErr, b0 |-> <<0, 0>>, block |-> 0, Method |-> "", UserAgent |-> "",
   ContentLength |-> 0, withBody |-> FALSE]
EncodeCall(req) == [pc |-> "call", req |-> req, out |-> NoEnvelope]
NoEncode == EncodeCall(Request(1, 0, "http"))

Encode ==
  /\ enc.pc = "call"
  /\ enc' = [enc EXCEPT !.pc = "done", !.out = encodeRequest(enc.req)]
  /\ UNCHANGED <<Level, caches, raceVars, callLimit, pk, aliasVars, ea, cc,
                 dec, ck>>

\* -------------------------------------------------------- decodeResponse
StatusOK == 200
StatusBadRequest == 400

\* strings are sequences of characters: ", " and ";"
Sep == <<",", " ">>
Semi == <<";">>

\* the first position at which sep occurs in s, 0 if none
Index(s, sep) ==
  LET at == { i \in 1..(Len(s) - Len(sep) + 1) :
                SubSeq(s, i, i + Len(sep) - 1) = sep }
  IN IF at = {} THEN 0 ELSE CHOOSE i \in at : \A j \in at : i <= j

\* strings.Split(s, sep) for a non-empty sep
RECURSIVE Split(_, _)
Split(s, sep) ==
  LET i == Index(s, sep) IN
  IF i = 0 THEN <<s>>
  ELSE <<SubSeq(s, 1, i - 1)>> \o Split(SubSeq(s, i + Len(sep), Len(s)), sep)

\* strings.Contains(s, "=")
ContainsEq(s) == \E i \in 1..Len(s) : s[i] = "="

\* a part is glued to the cookie before it even when it names a cookie
StartsCookieNever(i, c) == i = 0

\* `i == 0 || strings.Contains(strings.Split(c, ";")[0], "=")`, i from 0
StartsCookie(i, c) == i = 0 \/ ContainsEq(Split(c, Semi)[1])

\* the loop over parts: parts1 after the parts from position k on
RECURSIVE Rejoin(_, _, _)
Rejoin(parts, k, parts1) ==
  IF k > Len(parts) THEN parts1
  ELSE LET c == parts[k] IN
       Rejoin(parts, k + 1,
              IF StartsCookie(k - 1, c) THEN Append(parts1, c)
              ELSE [parts1 EXCEPT ![Len(parts1)] = @ \o Sep \o c])

\* the Set-Cookie values of resp1 after the block at lines 91-111
SetCookies(cookies) ==
  IF Len(cookies) = 1
    THEN LET parts1 == Rejoin(Split(cookies[1], Sep), 1, <<>>) IN
         IF Len(parts1) > 1 THEN parts1 ELSE cookies
    ELSE cookies

\* a response: status, Set-Cookie values and the bytes its body yields
Response(status, cookies, body) ==
  [StatusCode |-> status, cookies |-> cookies, Body |-> body]
NoResponse == Response(0, <<>>, <<>>)

\* http.ReadResponse over flate.NewReader on the header block: inflating
\* and parsing are not computed; a few blocks stand for well-formed heads
\* (the inner body is what follows the head inside the block), every other
\* block is corrupt
ReadBlock(block) ==
  CASE block = <<1>> ->
         [err |-> NoErr, resp |-> Response(200, <<>>, <<>>)]
    [] block = <<2, 2>> ->
         [err |-> NoErr, resp |-> Response(404, <<>>, <<3, 3>>)]
    [] block = <<3, 3, 3>> ->
         [err |-> NoErr, resp |-> Response(500, <<>>, <<>>)]
    [] block = <<1, 2>> ->
         [err |-> NoErr,
          resp |-> Response(200, <<(<<"a", "=", ",", " ", "=">>)>>, <<2>>)]
    [] block = <<2, 1>> ->
         [err |-> NoErr,
          resp |-> Response(403, <<(<<"a", "=">>), (<<"=">>)>>, <<1>>)]
    [] OTHER -> [err |-> "CorruptInput", resp |-> NoResponse]

\* the body of a response to any status
ComposeBodyRestOnly(status, decoded, rest) == rest

\* the body of resp1 after lines 113-129 (resp.Body is not nil once the
\* length has been read from it; ReadResponse never leaves resp1.Body nil)
ComposeBody(status, decoded, rest) ==
  IF status >= StatusBadRequest
    THEN IF decoded # <<>> THEN decoded \o rest ELSE rest
    ELSE rest

\* only error statuses are handed back untouched
PassThroughErrors(resp) == resp.StatusCode >= StatusBadRequest

\* `if resp.StatusCode != http.StatusOK`
PassThrough(resp) == resp.StatusCode # StatusOK

\* what a read that ends before it is complete returns
ShortRead(got) == IF got = 0 THEN "EOF" ELSE "UnexpectedEOF"

\* what decodeResponse returns, and how many bytes of resp.Body it read
Decoded(resp, err, consumed) ==
  [resp |-> resp, err |-> err, consumed |-> consumed]

decodeResponse(resp) ==
  IF PassThrough(resp) THEN Decoded(resp, NoErr, 0)
  ELSE IF Len(resp.Body) < 2
    THEN Decoded(NoResponse, ShortRead(Len(resp.Body)), Len(resp.Body))
  ELSE
    LET hdrLen == ReadUint16(SubSeq(resp.Body, 1, 2))
        avail == Len(resp.Body) - 2
    IN IF avail < hdrLen
         THEN Decoded(NoResponse, ShortRead(avail), Len(resp.Body))
       ELSE
         LET r == ReadBlock(SubSeq(resp.Body, 3, 2 + hdrLen))
             rest == SubSeq(resp.Body, 3 + hdrLen, Len(resp.Body))
         IN IF r.err # NoErr THEN Decoded(NoResponse, r.err, 2 + hdrLen)
            ELSE Decoded(Response(r.resp.StatusCode,
                                  SetCookies(r.resp.cookies),
                                  ComposeBody(r.resp.StatusCode, r.resp.Body,
                                              rest)),
                         NoErr, 2 + hdrLen)

DecodeCall(resp) ==
  [pc |-> "call", resp |-> resp, out |-> Decoded(NoResponse, NoErr, 0)]
NoDecode == DecodeCall(NoResponse)

Decode ==
  /\ dec.pc = "call"
  /\ dec' = [dec EXCEPT !.pc = "done", !.out = decodeResponse(dec.resp)]
  /\ UNCHANGED <<Level, caches, raceVars, callLimit, pk, aliasVars, ea, cc,
                 enc, ck>>

\* the Set-Cookie block of decodeResponse applied to a header
CookieCall(cookies) == [pc |-> "call", cookies |-> cookies, out |-> <<>>]
NoCookie == CookieCall(<<>>)

Cookie ==
  /\ ck.pc = "call"
  /\ ck' = [ck EXCEPT !.pc = "done", !.out = SetCookies(ck.cookies)]
  /\ UNCHANGED <<Level, caches, raceVars, callLimit, pk, aliasVars, ea, cc,
                 enc, dec>>

\* ExpandAlias, ClearCache and the relay codec have not been called
NoCodecUse ==
  /\ ea = NoExpand
  /\ cc = NoClear
  /\ enc = NoEncode
  /\ dec = NoDecode
  /\ ck = NoCookie

\* no race has started
NoRace ==
  /\ mode = "none"
  /\ pool = <<>>
  /\ length = 0
  /\ picked = <<>>
  /\ task = <<>>
  /\ lane = <<>>
  /\ sent = <<>>
  /\ coPc = "idle"
  /\ coI = 0
  /\ coR = ZeroRacer
  /\ ret = <<>>
  /\ drPc = "none"
  /\ drCount = 0
  /\ drGot = 0
  /\ sock = <<>>
  /\ closes = <<>>
  /\ recvBy = <<>>
  /\ calls = 0

\* a new dialer: empty caches
Init ==
  /\ Level \in 0..MaxLevel
  /\ TCPConnDuration = EmptyCache
  /\ TCPConnError = EmptyCache
  /\ TLSConnDuration = EmptyCache
  /\ TLSConnError = EmptyCache
  /\ NoRace
  /\ callLimit = MaxCalls
  /\ pk = NoPick
  /\ NoAliasUse
  /\ NoCodecUse

Next ==
  \/ \E addrs \in PoolSet : dialMulti(addrs)
  \/ \E addrs \in PoolSet : dialMultiTLS(addrs)
  \/ \E i \in Tasks : TCPAttempt(i)
  \/ \E i \in Tasks : TLSConnect(i)
  \/ \E i \in Tasks : TLSHandshake(i)
  \/ \E i \in Tasks : TaskSend(i)
  \/ CoordinatorRecv
  \/ DrainerRecv
  \/ Expire

Spec == Init /\ [][Next]_vars

\* A dialer that has been in use: health records left by earlier races
\* (dialMulti never writes TCPConnError), then a single race.
UsedDurations ==
  { EmptyCache,
    [a \in {"a1"} |-> 1],
    [a \in {"a1", "a2"} |-> IF a = "a1" THEN MaxDur ELSE 1],
    [a \in Addrs |-> 1] }
UsedErrors ==
  { EmptyCache,
    [a \in {"a3"} |-> "ConnectError"],
    [a \in {"a1", "a3"} |-> "HandshakeError"] }

InitRace ==
  /\ Level \in 0..MaxLevel
  /\ TCPConnDuration \in UsedDurations
  /\ TCPConnError = EmptyCache
  /\ TLSConnDuration \in UsedDurations
  /\ TLSConnError \in UsedErrors
  /\ NoRace
  /\ callLimit = 1
  /\ pk = NoPick
  /\ NoAliasUse
  /\ NoCodecUse

SpecRace == InitRace /\ [][Next]_vars

\* ------------------------------------------------ pickupAddrs on its own
PickAddrs == <<"p1", "p2", "p3", "p4", "p5">>
PickLists == { SubSeq(PickAddrs, 1, k) : k \in 0..Len(PickAddrs) }
Range(s) == { s[i] : i \in 1..Len(s) }
CachesOver(keys, values) ==
  UNION { [S -> values] : S \in SUBSET keys }

\* a call with three timed, two untried and one failed address
ExampleAddrs == <<"g1", "g2", "g3", "u1", "u2", "b1">>
ExampleCall ==
  PickCall(ExampleAddrs, 4,
           [a \in {"g1", "g2", "g3"} |->
              CASE a = "g1" -> 10 [] a = "g2" -> 20 [] a = "g3" -> 30],
           [a \in {"b1"} |-> "ConnectError"])

InitPick ==
  /\ \/ \E addrs \in PickLists, n \in 0..MaxPick :
          \E connDuration \in CachesOver(Range(PickAddrs), Durations),
             connError \in CachesOver(Range(PickAddrs), {"ConnectError"}) :
            pk = PickCall(addrs, n, connDuration, connError)
     \/ pk = ExampleCall
  /\ Level = 0
  /\ TCPConnDuration = EmptyCache
  /\ TCPConnError = EmptyCache
  /\ TLSConnDuration = EmptyCache
  /\ TLSConnError = EmptyCache
  /\ NoRace
  /\ callLimit = 0
  /\ NoAliasUse
  /\ NoCodecUse

Pickup ==
  /\ pk.pc = "call"
  /\ \E r \in pickupAddrs(pk.addrs, pk.n, pk.connDuration, pk.connError) :
       pk' = [pk EXCEPT !.result = r, !.pc = "done"]
  /\ UNCHANGED <<Level, caches, raceVars, callLimit, aliasVars, extraVars>>

NextPick == Pickup

SpecPick == InitPick /\ [][NextPick]_vars

\* --------------------------------------------------- alias lookup alone
RECURSIVE SeqsUpTo(_, _)
SeqsUpTo(S, k) ==
  IF k = 0 THEN {<<>>}
  ELSE LET shorter == SeqsUpTo(S, k - 1)
       IN shorter \cup { Append(s, x) : s \in shorter, x \in S }
MemberLists == SeqsUpTo(Members, MaxMembers)

InitAlias ==
  /\ HostMap \in [AliasNames -> MemberLists]
  /\ IPv6Only \in BOOLEAN
  /\ IPBlackList = {}
  /\ DNSCache = EmptyCache
  /\ la = NoLookup
  /\ NoCodecUse
  /\ pk = NoPick
  /\ Level = 0
  /\ TCPConnDuration = EmptyCache
  /\ TCPConnError = EmptyCache
  /\ TLSConnDuration = EmptyCache
  /\ TLSConnError = EmptyCache
  /\ NoRace
  /\ callLimit = 0

NextAlias ==
  \/ \E alias \in AliasNames \cup {"missing"} : LookupAlias(alias)
  \/ \E ip \in IPs : BlackListAdd(ip)
  \/ \E ip \in IPs : BlackListExpire(ip)
  \/ \E name \in Hosts : DNSExpire(name)

SpecAlias == InitAlias /\ [][NextAlias]_vars

\* ------------------------------------- Dial, DialTLS and ClearCache
DialMembers ==
  { <<>>, <<"h1.example">>, <<"1.2.3.4", "h1.example">>,
    <<"5.6.7.8", "2001:db8::1">> }

InitDial ==
  /\ Level \in 0..MaxLevel
  /\ HostMap \in [AliasNames -> DialMembers]
  /\ IPv6Only \in BOOLEAN
  /\ IPBlackList \in {{}, {"5.6.7.8"}}
  /\ DNSCache = EmptyCache
  /\ la = NoLookup
  /\ NoCodecUse
  /\ pk = NoPick
  /\ TCPConnDuration = EmptyCache
  /\ TCPConnError = EmptyCache
  /\ TLSConnDuration = EmptyCache
  /\ TLSConnError = EmptyCache
  /\ NoRace
  /\ callLimit = MaxDials

NextDial ==
  \/ \E network \in DialNetworks, address \in DialAddresses :
       Dial(network, address)
  \/ \E network \in DialNetworks, address \in DialAddresses :
       DialTLS(network, address)
  \/ \E i \in Tasks : TCPAttempt(i)
  \/ \E i \in Tasks : TLSConnect(i)
  \/ \E i \in Tasks : TLSHandshake(i)
  \/ \E i \in Tasks : TaskSend(i)
  \/ CoordinatorRecv
  \/ DrainerRecv
  \/ ClearCache

SpecDial == InitDial /\ [][NextDial]_vars

\* A dialer that has been in use: h1.example resolved and cached by an
\* earlier lookup, health records left by earlier races (dialMulti never
\* writes TCPConnError), then a single Dial or DialTLS call and ClearCache.
UsedDNSCache ==
  [n \in {"h1.example"} |->
     [addrs |-> IF IPv6Only THEN V6 ELSE V4, expiry |-> "DNSCacheExpiry"]]
UsedHealth ==
  { <<EmptyCache, EmptyCache, EmptyCache, EmptyCache>>,
    <<[a \in {"1.2.3.4:443"} |-> 1], EmptyCache,
      [a \in {"1.2.3.4:443", "[2001:db8::1]:443"} |-> MaxDur],
      [a \in {"5.6.7.8:443"} |-> "HandshakeError"]>> }

InitClear ==
  /\ Level \in 0..MaxLevel
  /\ HostMap \in [AliasNames -> {<<"h1.example">>, <<"h1.example", "5.6.7.8">>}]
  /\ IPv6Only \in BOOLEAN
  /\ IPBlackList \in {{}, {"5.6.7.8"}}
  /\ DNSCache \in {EmptyCache, UsedDNSCache}
  /\ la = NoLookup
  /\ NoCodecUse
  /\ pk = NoPick
  /\ \E t \in UsedHealth :
       /\ TCPConnDuration = t[1]
       /\ TCPConnError = t[2]
       /\ TLSConnDuration = t[3]
       /\ TLSConnError = t[4]
  /\ NoRace
  /\ callLimit = 1

SpecClear == InitClear /\ [][NextDial]_vars

\* ------------------------------------------------- alias expansion alone
InitExpand ==
  /\ InitAlias
  /\ IPBlackList = {}

NextExpand ==
  \/ \E alias \in AliasNames \cup {"missing"} : ExpandAlias(alias)
  \/ \E name \in Hosts : DNSExpire(name)

SpecExpand == InitExpand /\ [][NextExpand]_vars

\* ---------------------------------------------- the relay codec alone
\* the dialer's variables, unused by the codec
NoDialer ==
  /\ Level = 0
  /\ TCPConnDuration = EmptyCache
  /\ TCPConnError = EmptyCache
  /\ TLSConnDuration = EmptyCache
  /\ TLSConnError = EmptyCache
  /\ NoRace
  /\ callLimit = 0
  /\ pk = NoPick
  /\ NoAliasUse
  /\ ea = NoExpand
  /\ cc = NoClear

InitEncode ==
  /\ \E headSize \in HeadSizes, contentLength \in ContentLengths,
        scheme \in Schemes :
       enc = EncodeCall(Request(headSize, contentLength, scheme))
  /\ dec = NoDecode
  /\ ck = NoCookie
  /\ NoDialer

NextEncode == Encode

SpecEncode == InitEncode /\ [][NextEncode]_vars

OuterStatuses == {200, 204, 404}
BodyBytes == 0..3
Bodies == UNION { [1..n -> BodyBytes] : n \in 0..MaxBody }

InitDecode ==
  /\ \E status \in OuterStatuses, body \in Bodies :
       dec = DecodeCall(Response(status, <<>>, body))
  /\ enc = NoEncode
  /\ ck = NoCookie
  /\ NoDialer

NextDecode == Decode

SpecDecode == InitDecode /\ [][NextDecode]_vars

CookieChars == {"a", "=", ";", ",", " "}
CookieValues == UNION { [1..n -> CookieChars] : n \in 0..MaxCookieLen }
\* the values of a header that has several
ShortValues == { <<"a", "=">>, <<"=", ",", " ", "=">>, <<"a">> }

InitCookie ==
  /\ \/ ck = CookieCall(<<>>)
     \/ \E v \in CookieValues : ck = CookieCall(<<v>>)
     \/ \E v, w \in ShortValues : ck = CookieCall(<<v, w>>)
  /\ enc = NoEncode
  /\ dec = NoDecode
  /\ NoDialer

NextCookie == Cookie

SpecCookie == InitCookie /\ [][NextCookie]_vars

\* ---------------------------------------------------------------- claims
Received(i) == recvBy[i] # <<>>
\* the positions in sent of the outcomes without error
SuccessPositions == { k \in 1..Len(sent) : sent[k].e = NoErr }
FirstSuccessPos ==
  CHOOSE k \in SuccessPositions : \A j \in SuccessPositions : k <= j
Returned == coPc = "returned" /\ ret # <<>>
ReturnedConn == Returned /\ ret[1].c # NoConn
Handed(i) == ReturnedConn /\ ret[1].c = i /\ ret[1].e = NoErr

\* C1: once a race has run to its end (every task has sent, the lane is
\* drained), every socket a connect opened is the one handed to the caller
\* or has been closed, TLS sockets whose handshake failed included.
C1_SocketsHandedOrClosed ==
  Quiescent => \A i \in Tasks : sock[i] = "open" => Handed(i)

\* C2: when every launched attempt has failed, the race has returned to its
\* caller, with no connection and the error of the last outcome received.
C2_AllFailedReturnsLastError ==
  (Quiescent /\ Len(picked) > 0 /\ \A i \in Tasks : task[i].e # NoErr)
    => /\ Returned
       /\ ret[1].c = NoConn
       /\ ret[1].e = sent[Len(sent)].e
       /\ coR = sent[Len(sent)]

\* C3: every outcome sent is received exactly once, and after a success the
\* drainer has terminated, having received every outcome the coordinator
\* did not.
C3_NoTaskLeaked ==
  Quiescent =>
    /\ \A i \in Tasks : Len(recvBy[i]) = 1
    /\ ReturnedConn =>
         /\ drPc = "done"
         /\ drGot = Cardinality({ i \in Tasks : recvBy[i] = <<"drainer">> })
         /\ drGot + coI + 1 = Len(picked)

\* C4: at most one connection is handed to the caller; it is the one of the
\* first outcome without error in arrival order; every other connection of
\* an outcome without error is closed exactly once, by the drainer.
C4_FirstSuccessWins ==
  /\ Len(ret) <= 1
  /\ ReturnedConn =>
       /\ SuccessPositions # {}
       /\ ret[1].c = sent[FirstSuccessPos].c
       /\ ret[1].e = NoErr
  /\ \A i \in Tasks :
       /\ closes[i] <= 1
       /\ closes[i] = 1 => recvBy[i] = <<"drainer">> /\ ~Handed(i)
  /\ Quiescent =>
       /\ SuccessPositions # {} => ReturnedConn
       /\ \A i \in Tasks :
            (task[i].e = NoErr /\ ~Handed(i))
              => closes[i] = 1 /\ sock[i] = "closed"

\* C4 witness: the second task launched wins; the first also succeeded,
\* arrived later and was closed by the drainer.
C4_Witness ==
  /\ Quiescent
  /\ Len(picked) >= 2
  /\ Handed(2)
  /\ task[1].e = NoErr
  /\ closes[1] = 1
  /\ recvBy[1] = <<"drainer">>

\* C5: for each transport and address, the duration cache and the error
\* cache never both hold a record.
C5_AtMostOneLiveRecord ==
  \A a \in Addrs :
    /\ ~(CacheHas(TCPConnDuration, a) /\ CacheHas(TCPConnError, a))
    /\ ~(CacheHas(TLSConnDuration, a) /\ CacheHas(TLSConnError, a))

\* C6: a failed attempt of the TCP race deletes the address's TCP duration
\* record and writes the error into the TCP error cache; an attempt of the
\* TCP race leaves both TLS caches unchanged.
C6_TCPFailureUpdatesTCPCaches ==
  [][ \A i \in Tasks :
        (mode = "tcp" /\ calls' = calls /\ task[i].pc = "run"
           /\ task'[i].pc = "send")
          => /\ TLSConnDuration' = TLSConnDuration
             /\ TLSConnError' = TLSConnError
             /\ task'[i].e # NoErr =>
                  /\ ~CacheHas(TCPConnDuration', picked[i])
                  /\ CacheHas(TCPConnError', picked[i])
                  /\ TCPConnError'[picked[i]] = task'[i].e ]_vars

\* the error cache the running race handed to pickupAddrs
RaceErrorCache == IF mode = "tcp" THEN TCPConnError ELSE TLSConnError

\* C7: when the pool is larger than n, no picked address has a record in
\* the error cache (checked right after the pick, before any task moves).
C7_PickedNeverBad ==
  (mode # "none" /\ Len(pool) > length /\ \A i \in Tasks : task[i].pc = "run")
    => \A i \in Tasks : ~CacheHas(RaceErrorCache, picked[i])

\* positions of the picker's result that hold an address with a duration
\* record
GoodPositions ==
  { i \in 1..Len(pk.result) : CacheHas(pk.connDuration, pk.result[i]) }

\* C8: for |A| > N the result holds at most N \div 2 addresses with a
\* duration record; they come first, in ascending order of duration, and no
\* duration-recorded address of A left out has a smaller duration.
C8_GoodHalfCapSmallestFirst ==
  (pk.pc = "done" /\ Len(pk.addrs) > pk.n) =>
    LET g == Cardinality(GoodPositions)
        dur == pk.connDuration
    IN /\ g <= pk.n \div 2
       /\ GoodPositions = 1..g
       /\ \A i, j \in GoodPositions :
            i < j => dur[pk.result[i]] <= dur[pk.result[j]]
       /\ \A i \in GoodPositions : \A a \in Range(pk.addrs) :
            (CacheHas(dur, a) /\ a \notin { pk.result[k] : k \in GoodPositions })
              => dur[pk.result[i]] <= dur[a]

\* C8 witness: two duration-recorded addresses picked in ascending order
\* of distinct durations while a slower one is left out.
C8_Witness ==
  /\ pk.pc = "done"
  /\ Len(pk.addrs) > pk.n
  /\ Cardinality(GoodPositions) = 2
  /\ pk.connDuration[pk.result[1]] < pk.connDuration[pk.result[2]]
  /\ \E a \in Range(pk.addrs) :
       /\ CacheHas(pk.connDuration, a)
       /\ a \notin Range(pk.result)
       /\ pk.connDuration[a] >= pk.connDuration[pk.result[2]]

\* a LookupAlias call has returned without error
LookupSucceeded == la.alias # "" /\ la.err = NoErr

\* C9: the list a successful LookupAlias returns holds no IP that is in
\* the blacklist and no IP of the wrong family.
C9_NoBlacklistedNoWrongFamily ==
  LookupSucceeded =>
    \A ip \in la.addrs :
      /\ ip \notin la.blackList
      /\ HasColon(ip) <=> IPv6Only

\* a step of LookupAlias (which leaves the blacklist alone)
LookupAliasStep ==
  /\ IPBlackList' = IPBlackList
  /\ \E alias \in AliasNames \cup {"missing"} : LookupAlias(alias)

\* C11: whenever LookupAlias stores a resolved hostname member in the DNS
\* cache, the entry expires at the DNSCacheExpiry TTL, whatever the other
\* members of the alias are and in whatever order they appear.
C11_HostnameEntryExpiresAtTTL ==
  [][ LookupAliasStep =>
        \A name \in Hosts :
          (~CacheHas(DNSCache, name) /\ CacheHas(DNSCache', name))
            => DNSCache'[name].expiry = "DNSCacheExpiry" ]_vars

\* the set a member contributes to a lookup: itself when it is a literal
\* IP, else its DNS-cache entry
Contribution(name, cache) ==
  IF ParseIP(name) THEN {name}
  ELSE IF CacheHas(cache, name) THEN cache[name].addrs ELSE {}

\* C12: a member whose resolver call fails contributes the empty set and
\* does not abort the lookup: when the members yield a non-blacklisted IP,
\* the lookup returns exactly their non-blacklisted IPs, without error.
C12_ResolverErrorDoesNotAbort ==
  [][ (la'.failed # {} /\ LookupAliasStep) =>
        LET names == HostMap[la'.alias]
            others == UNION { Contribution(names[i], DNSCache') :
                                i \in { k \in 1..Len(names) :
                                          names[k] \notin la'.failed } }
            good == others \ IPBlackList
        IN /\ \A name \in la'.failed : DNSCache'[name].addrs = {}
           /\ good # {} => (la'.addrs = good /\ la'.err = NoErr) ]_vars

\* C12 witness: the last member's resolver call failed and the lookup
\* returned the first member's addresses without error.
C12_Witness ==
  /\ la.alias \in DOMAIN HostMap
  /\ Len(HostMap[la.alias]) = 2
  /\ la.failed = {HostMap[la.alias][2]}
  /\ HostMap[la.alias][1] \in Hosts
  /\ la.addrs # {}
  /\ la.err = NoErr

\* C13: after ExpandAlias, the entry of each hostname member for which a
\* DNS server answered holds the union of all servers' answers and of the
\* entry cached before, with the 24-hour expiry; the entry of a hostname
\* member for which no server answered is unchanged.
C13_ExpandMergesAnswers ==
  ea.alias \in DOMAIN HostMap =>
    \A name \in Hosts \cap Range(HostMap[ea.alias]) :
      LET pos == { k \in 1..Len(ea.trace) : ea.trace[k].name = name }
          answers == UNION { ea.trace[k].seen : k \in pos }
          prior == IF CacheHas(ea.before, name)
                     THEN ea.before[name].addrs ELSE {}
      IN IF \E k \in pos : ea.trace[k].answered
           THEN /\ CacheHas(ea.after, name)
                /\ ea.after[name].addrs = answers \cup prior
                /\ ea.after[name].expiry = "24h"
           ELSE /\ CacheHas(ea.after, name) = CacheHas(ea.before, name)
                /\ CacheHas(ea.after, name)
                     => ea.after[name] = ea.before[name]

\* C14: ClearCache leaves the four health caches empty and the DNS cache
\* and the IP blacklist as they were.
C14_ClearCacheFrame ==
  [][ ClearCache =>
        /\ TCPConnDuration' = EmptyCache
        /\ TCPConnError' = EmptyCache
        /\ TLSConnDuration' = EmptyCache
        /\ TLSConnError' = EmptyCache
        /\ DNSCache' = DNSCache
        /\ IPBlackList' = IPBlackList ]_vars

\* C14 witness: ClearCache has just dropped TCP and TLS duration records
\* and error records while the DNS cache and the blacklist hold entries.
C14_Witness ==
  /\ cc.called
  /\ cc.found[1] > 0 /\ cc.found[3] > 0 /\ cc.found[4] > 0
  /\ HealthRecords = <<0, 0, 0, 0>>
  /\ DNSCache # EmptyCache
  /\ IPBlackList # {}

\* C20: a Dial call that returns hands back either a connection or an
\* error, never neither and never both.
C20_DialReturnsConnOrError ==
  (Returned /\ mode \in {"tcp", "direct"})
    => ((ret[1].c # NoConn) <=> (ret[1].e = NoErr))

\* C19: for a duplicate-free A with |A| > N the picker's result is a
\* duplicate-free selection of addresses of A of length exactly
\* min(N, min(|good|, N \div 2) + |unknown|), hence never longer than N;
\* for A = [g1, g2, g3, u1, u2, b1] and N = 4 it is g1, g2 followed by u1
\* and u2 in either order.
C19_PickLength ==
  (pk.pc = "done" /\ Len(pk.addrs) > pk.n) =>
    LET good == Len(GoodOf(pk.addrs, pk.connDuration))
        unknown == Len(UnknownOf(pk.addrs, pk.connDuration, pk.connError))
    IN /\ Len(pk.result) = Min(pk.n, Min(good, pk.n \div 2) + unknown)
       /\ Len(pk.result) <= pk.n
       /\ Range(pk.result) \subseteq Range(pk.addrs)
       /\ \A i, j \in 1..Len(pk.result) :
            i # j => pk.result[i] # pk.result[j]
       /\ pk.addrs = ExampleAddrs =>
            /\ SubSeq(pk.result, 1, 2) = <<"g1", "g2">>
            /\ Range(pk.result) = {"g1", "g2", "u1", "u2"}

\* C19 witness: the example call has returned g1, g2, u2, u1.
C19_Witness ==
  /\ pk.pc = "done"
  /\ pk.addrs = ExampleAddrs
  /\ pk.n = 4
  /\ pk.result = <<"g1", "g2", "u2", "u1">>

\* C15: encodeRequest never emits an envelope whose 2-byte length prefix
\* differs from the size of the compressed block: a block larger than 65535
\* bytes makes it fail with RelayHeaderTooLarge; otherwise the prefix is
\* the block's size and the outer Content-Length is 2 + the block's size +
\* the request's content length.
C15_PrefixIsBlockLength ==
  enc.pc = "done" =>
    LET C == enc.req.headSize IN
    /\ enc.out.err = NoErr => ReadUint16(enc.out.b0) = C
    /\ IF C > 65535
         THEN enc.out.err = "RelayHeaderTooLarge"
         ELSE /\ enc.out.err = NoErr
              /\ enc.req.ContentLength >= 0 =>
                   enc.out.ContentLength = 2 + C + enc.req.ContentLength

\* C16: an outer response whose status is not 200 is returned as it is,
\* without error and with no byte of its body read; bytes are read from
\* the body of outer-200 responses only.
C16_Non200Untouched ==
  dec.pc = "done" =>
    /\ dec.resp.StatusCode # 200 =>
         /\ dec.out.resp = dec.resp
         /\ dec.out.err = NoErr
         /\ dec.out.consumed = 0
    /\ dec.out.consumed > 0 => dec.resp.StatusCode = 200

\* C16 witness: an outer 404 whose body would decode has come back as it
\* was.
C16_Witness ==
  /\ dec.pc = "done"
  /\ dec.resp.StatusCode = 404
  /\ dec.resp.Body = <<0, 2, 2, 2, 1>>
  /\ dec.out.resp = dec.resp
  /\ dec.out.consumed = 0

\* the text before the first ';' of s contains '='
HasEqBeforeSemi(s) ==
  \E i \in 1..Len(s) : s[i] = "=" /\ \A j \in 1..(i - 1) : s[j] # ";"

\* the strings of a list joined with sep between them
RECURSIVE JoinWith(_, _)
JoinWith(ss, sep) ==
  IF ss = <<>> THEN <<>>
  ELSE IF Len(ss) = 1 THEN ss[1]
  ELSE ss[1] \o sep \o JoinWith(Tail(ss), sep)

\* the positions of the parts that start a cookie
CookieStarts(parts) ==
  {1} \cup { i \in 2..Len(parts) : HasEqBeforeSemi(parts[i]) }

\* the cookies the parts make: each runs from a start to the next one
CookiesOf(parts) ==
  LET starts == CookieStarts(parts)
      nth(k) == CHOOSE i \in starts :
                  Cardinality({ j \in starts : j < i }) = k - 1
      last(k) == IF k = Cardinality(starts) THEN Len(parts)
                 ELSE nth(k + 1) - 1
  IN [k \in 1..Cardinality(starts) |->
        JoinWith(SubSeq(parts, nth(k), last(k)), Sep)]

\* C17: a single Set-Cookie value is split on ", "; the first part starts
\* a cookie, a later part starts one iff the text before its first ';'
\* contains '=', else it is appended to the cookie before it with ", ".
\* The header is replaced only when more than one cookie results; then
\* every cookie after the first has '=' before its first ';' and the
\* cookies joined with ", " give the original value. With no value or
\* several values the header is unchanged.
C17_SetCookieRejoined ==
  ck.pc = "done" =>
    IF Len(ck.cookies) = 1
      THEN LET parts == Split(ck.cookies[1], Sep) IN
           /\ ck.out = IF Cardinality(CookieStarts(parts)) > 1
                         THEN CookiesOf(parts) ELSE ck.cookies
           /\ Len(ck.out) > 1 =>
                /\ \A k \in 2..Len(ck.out) : HasEqBeforeSemi(ck.out[k])
                /\ JoinWith(ck.out, Sep) = ck.cookies[1]
      ELSE ck.out = ck.cookies

\* C17 witness: "=, a, =" has become the two cookies "=, a" and "=".
C17_Witness ==
  /\ ck.pc = "done"
  /\ ck.cookies = << <<"=", ",", " ", "a", ",", " ", "=">> >>
  /\ ck.out = << <<"=", ",", " ", "a">>, <<"=">> >>

\* C18: for an outer-200 response that decodes, the final body is the
\* rest of the outer body after the header block when the decoded status
\* is below 400 or the decoded body is empty, and the decoded body followed
\* by that rest when the decoded status is at least 400 and the decoded
\* body is not empty.
C18_BodyComposition ==
  (dec.pc = "done" /\ dec.resp.StatusCode = 200 /\ dec.out.err = NoErr) =>
    LET body == dec.resp.Body
        hdrLen == ReadUint16(SubSeq(body, 1, 2))
        inner == ReadBlock(SubSeq(body, 3, 2 + hdrLen)).resp
        rest == SubSeq(body, 3 + hdrLen, Len(body))
    IN /\ dec.out.consumed = 2 + hdrLen
       /\ dec.out.resp.StatusCode = inner.StatusCode
       /\ dec.out.resp.Body =
            IF inner.StatusCode < 400 THEN rest
            ELSE IF inner.Body # <<>> THEN inner.Body \o rest
            ELSE rest

\* C18 witness: a decoded 404 with body 3,3 and the outer rest 1 give the
\* body 3,3,1.
C18_Witness ==
  /\ dec.pc = "done"
  /\ dec.resp.StatusCode = 200
  /\ dec.resp.Body = <<0, 2, 2, 2, 1>>
  /\ dec.out.err = NoErr
  /\ dec.out.resp.StatusCode = 404
  /\ dec.out.resp.Body = <<3, 3, 1>>

\* C10: a LookupAlias call for a known alias (with at least one member)
\* that ends with no address returns a non-nil error.
C10_EmptyResultIsError ==
  (la.alias \in DOMAIN HostMap /\ HostMap[la.alias] # <<>> /\ la.addrs = {})
    => la.err # NoErr

====
